---- MODULE Spec2Model ----
(***************************************************************************)
(* A model of the data-analysis agent's execution-and-recovery core:       *)
(*   - QueryExecutor.execute_safely          (src/src/engine/executor.py)  *)
(*   - DataEngine / DuckDBEngine / SparkEngine (src/src/engine/*.py)       *)
(*   - ExecutionMemory                       (src/src/core/memory.py)      *)
(*   - OutputParser / PlannerAgent           (src/src/agents/planner.py)   *)
(*                                                                         *)
(* Python strings are sequences of one-character strings, so that slicing, *)
(* upper-casing and substring search are computed as the code computes     *)
(* them.  Python values that may be None are tagged records.               *)
(***************************************************************************)
EXTENDS Integers, Sequences, FiniteSets, TLC

VARIABLES
    engine,             \* QueryExecutor.engine: the engine object and its session
    query,              \* argument of the last execute_safely call
    calls,              \* engine methods invoked by the last call, in order, with outcomes
    ret,                \* what the last execute_safely call gave its caller
    enable_fallback,    \* DataAnalysisAgent(enable_fallback=...)
    fallback,           \* the fallback engine object built by DataAnalysisAgent, or None
    fallback_calls,     \* engine methods invoked on the fallback engine by the last call
    fallback_script,    \* what the fallback engine would do if it were asked
    history,            \* ExecutionMemory.history
    context,            \* what the last get_failure_context call returned
    responses,          \* what llm.chat did at each attempt of the last generate_plan call
    llm_calls,          \* number of llm.chat calls made by the last generate_plan call
    sleeps,             \* seconds slept between the attempts of that call, in order
    plan_ret,           \* what the last generate_plan call gave its caller
    run                 \* the analyze call in progress: stage, plan, results, payload

vars == <<engine, query, calls, ret, enable_fallback, fallback, fallback_calls,
          fallback_script, history, context, responses, llm_calls, sleeps, plan_ret,
          run>>

execVars == <<engine, query, calls, ret, enable_fallback, fallback, fallback_calls,
              fallback_script>>
memVars == <<history, context>>
planVars == <<responses, llm_calls, sleeps, plan_ret>>

(***************************************************************************)
(* Bounds of the model.                                                    *)
(***************************************************************************)
\* characters appended to a query to make it longer than the audit prefix
LongPad == 90
\* rows the backend returns for a query that yields data
MaxRows == 2
\* records appended to one ExecutionMemory
MaxHistory == 5
\* rows of a result whose str() is longer than the preview
BigRows == 70

(***************************************************************************)
(* Python values.                                                          *)
(***************************************************************************)
None == [tag |-> "None"]
List(s) == [tag |-> "list", items |-> s]
\* an object with no __len__ (neither None nor a list / DataFrame)
Unsized == [tag |-> "object"]

Return(v) == [tag |-> "return", value |-> v]
Raise(type, text) == [tag |-> "raise", type |-> type, text |-> text]
Unused == [tag |-> "unused"]

\* str(e) of the exceptions the backends raise
\* ValueError is a subclass of Exception; "Exception" stands for every other subclass
Excs == {Raise(t, x) : t \in {"ValueError", "Exception"}, x \in {<<>>, <<"boom">>}}

(***************************************************************************)
(* Strings.                                                                *)
(***************************************************************************)
UpperChar(c) ==
    LET LowerLetters == <<"a","b","c","d","e","f","g","h","i","j","k","l","m",
                          "n","o","p","q","r","s","t","u","v","w","x","y","z">>
        UpperLetters == <<"A","B","C","D","E","F","G","H","I","J","K","L","M",
                          "N","O","P","Q","R","S","T","U","V","W","X","Y","Z">>
    IN  IF \E i \in 1..Len(LowerLetters) : LowerLetters[i] = c
        THEN UpperLetters[CHOOSE i \in 1..Len(LowerLetters) : LowerLetters[i] = c]
        ELSE c

\* str.upper()
Upper(s) == [i \in 1..Len(s) |-> UpperChar(s[i])]

\* w in s
Contains(w, s) ==
    \E i \in 1..(Len(s) - Len(w) + 1) : SubSeq(s, i, i + Len(w) - 1) = w

\* s[:n]
Take(s, n) == SubSeq(s, 1, IF Len(s) < n THEN Len(s) ELSE n)

Pad(s, n) == s \o [i \in 1..n |-> "x"]

KW_DROP == <<"D","R","O","P">>
KW_DELETE == <<"D","E","L","E","T","E">>

QSelect == <<"s","e","l","e","c","t"," ","a"," ","f","r","o","m"," ","t">>
QLimit == <<"S","E","L","E","C","T"," ","a"," ","F","R","O","M"," ","t"," ",
            "L","I","M","I","T"," ","5">>
QDropTable == <<"D","R","O","P"," ","T","A","B","L","E"," ","t">>
QDropLower == <<"d","r","o","p"," ","t","a","b","l","e"," ","t">>
QDelete == <<"D","e","l","e","t","e"," ","f","r","o","m"," ","t">>
QUpdate == <<"u","p","d","a","t","e"," ","t"," ","s","e","t"," ","a","=","1">>
QLong == Pad(QLimit, LongPad)

Queries == {<<>>, QSelect, QLimit, QDropTable, QDropLower, QDelete, QUpdate, QLong}

(***************************************************************************)
(* Engines.  An engine object is one of the two concrete engines or any    *)
(* other object handed to QueryExecutor ("stub": a test double or a third  *)
(* implementation, whose methods do whatever the script says).  session is *)
(* the backend handle the object holds: "none" before the first connect,   *)
(* "open" after a successful connect, "closed" after close.                *)
(***************************************************************************)
EngineKinds == {"stub", "duckdb", "spark"}

NewEngine(kind, hv, hx) ==
    [kind |-> kind, session |-> "none", has_validate |-> hv, has_execute |-> hx]

\* DataEngine.validate_code
validate_code(code) ==
    LET upper == Upper(code) IN
    IF Contains(KW_DROP, upper) \/ Contains(KW_DELETE, upper)
    THEN FALSE
    ELSE TRUE

forbidden_words ==
    {KW_DROP, <<"T","R","U","N","C","A","T","E">>, <<"I","N","S","E","R","T">>,
     KW_DELETE, <<"U","P","D","A","T","E">>}
safe_keywords ==
    {<<"C","O","U","N","T">>, <<"S","U","M">>, <<"A","V","G">>,
     <<"G","R","O","U","P"," ","B","Y">>, <<"L","I","M","I","T">>,
     <<"M","A","X">>, <<"M","I","N">>}

\* SparkEngine.validate_code, the two static checks: the blacklist, then the
\* required aggregation or LIMIT keyword
SparkStaticChecks(query_code) ==
    LET upper == Upper(query_code) IN
    IF \E word \in forbidden_words : Contains(word, upper)
    THEN FALSE
    ELSE IF ~ \E k \in safe_keywords : Contains(k, upper)
    THEN FALSE
    ELSE TRUE

\* the two keyword checks on the queries of the model, computed once
ValidateCodeOf == [q \in Queries |-> validate_code(q)]
SparkStaticChecksOf == [q \in Queries |-> SparkStaticChecks(q)]

\* SparkEngine.validate_code; explain is the outcome of spark.sql(q).explain()
\* on an existing session.  With self.spark = None the attribute access raises
\* and the except clause answers False.
SparkValidateCode(e, query_code, explain) ==
    IF ~ SparkStaticChecksOf[query_code]
    THEN FALSE
    ELSE IF e.session = "none"
    THEN FALSE
    ELSE explain.tag = "return"

\* engine.validate_code(query) as the executor sees it
EngineValidate(e, q, s) ==
    CASE e.kind = "stub" -> s.validate
      [] e.kind = "duckdb" -> Return(ValidateCodeOf[q])
      [] e.kind = "spark" -> Return(SparkValidateCode(e, q, s.explain))

\* engine.connect(): both concrete engines re-raise what the backend raises
EngineConnect(e, s) == s.connect

\* the engine object after connect(): a new session handle is stored only when
\* the backend call returned
Connected(e, outcome) ==
    IF outcome.tag = "return" THEN [e EXCEPT !.session = "open"] ELSE e

\* the engine object after close(): the handle is kept (never reset to None),
\* and is a closed one once the backend call returned
Closed(e, outcome) ==
    IF e.session # "none" /\ outcome.tag = "return"
    THEN [e EXCEPT !.session = "closed"]
    ELSE e

\* engine.execute_query(query) on a connected engine: the concrete engines
\* validate once more and raise ValueError on an unsafe statement
EngineExecuteQuery(e, q, s) ==
    CASE e.kind = "stub" -> s.execute
      [] e.kind = "duckdb" ->
            IF ~ ValidateCodeOf[q] THEN Raise("ValueError", <<"unsafe SQL">>)
            ELSE s.execute
      [] e.kind = "spark" ->
            IF ~ SparkValidateCode(e, q, s.explain)
            THEN Raise("ValueError", <<"unsafe SQL">>)
            ELSE s.execute

EngineClose(e, s) == s.close

(***************************************************************************)
(* Scripts: what the backend does when asked, one entry per engine method. *)
(* Entries the call cannot consume are Unused.                             *)
(***************************************************************************)
Rows == {[i \in 1..n |-> i] : n \in 0..MaxRows}

ValidateOutcomes == {Return(TRUE), Return(FALSE)} \cup Excs
ConnectOutcomes == {Return(None)} \cup Excs
ExecuteOutcomes == {Return(List(r)) : r \in Rows} \cup {Return(None), Return(Unsized)}
                   \cup Excs
CloseOutcomes == {Return(None), Raise("Exception", <<"boom">>)}
ExplainOutcomes == {Return(None), Raise("Exception", <<"boom">>)}

Script(v, x, c, q, cl) ==
    [validate |-> v, explain |-> x, connect |-> c, execute |-> q, close |-> cl]

\* the scripts of a call that stops at validation
StopAtValidate(kind) ==
    IF kind = "stub"
    THEN {Script(v, Unused, Unused, Unused, Unused) : v \in ValidateOutcomes \ {Return(TRUE)}}
    ELSE IF kind = "spark"
    THEN {Script(Unused, x, Unused, Unused, Unused) : x \in ExplainOutcomes}
    ELSE {Script(Unused, Unused, Unused, Unused, Unused)}

PassValidate(kind) ==
    IF kind = "stub"
    THEN {Script(Return(TRUE), Unused, Unused, Unused, Unused)}
    ELSE IF kind = "spark"
    THEN {Script(Unused, x, Unused, Unused, Unused) : x \in ExplainOutcomes}
    ELSE {Script(Unused, Unused, Unused, Unused, Unused)}

Scripts(kind) ==
    StopAtValidate(kind)
    \cup {[s EXCEPT !.connect = c] : s \in PassValidate(kind), c \in Excs}
    \cup {[s EXCEPT !.connect = Return(None), !.execute = q, !.close = cl] :
             s \in PassValidate(kind), q \in ExecuteOutcomes, cl \in CloseOutcomes}

(***************************************************************************)
(* QueryExecutor.execute_safely.  A completion is Return(v) or a raised    *)
(* exception; the try / except / finally structure is followed clause by   *)
(* clause.                                                                 *)
(***************************************************************************)
Outcome(success, result, error_message) ==
    Return([success |-> success, result |-> result, error_message |-> error_message])

Call(op, outcome) == [op |-> op, outcome |-> outcome]

MissingValidateMsg == <<"engine lacks validate_code">>
MissingExecuteMsg == <<"engine lacks execute_query">>
ValidationRejectedMsg(q) == <<"SQL validation failed: ">> \o Take(q, 50) \o <<"...">>
ValidationErrorMsg(e) == <<"SQL validation raised: ">> \o e.text
ExecFailedMsg(e) == <<"SQL execution failed: ">> \o e.text
SystemErrorMsg(e) == <<"system execution error: ">> \o e.text

NormaliseResult_Identity(result) == result

\* if result is None: result = []
NormaliseResult(result) == IF result = None THEN List(<<>>) ELSE result

\* len(result) inside the success log line
LenOf(result) ==
    IF result.tag = "list" THEN Return(Len(result.items))
    ELSE Raise("Exception", <<"object has no len()">>)

\* lines 45-54: the body of the try statement, given that connect returned
AfterConnect(e, q, s) ==
    LET x == EngineExecuteQuery(e, q, s) IN
    IF x.tag = "raise" THEN x
    ELSE LET result == NormaliseResult(x.value) IN
         IF LenOf(result).tag = "raise" THEN LenOf(result)
         ELSE Outcome(TRUE, result, <<>>)

\* lines 56-64: the except clauses
ExceptClauses(completion) ==
    IF completion.tag # "raise" THEN completion
    ELSE IF completion.type = "ValueError"
    THEN Outcome(FALSE, List(<<>>), ExecFailedMsg(completion))
    ELSE Outcome(FALSE, List(<<>>), SystemErrorMsg(completion))

CloseGuard_Always(connection_established) == TRUE

\* line 67: if connection_established
CloseGuard(connection_established) == connection_established

FinallyCompletion_Propagates(completion, closed) ==
    IF closed.tag = "raise" THEN closed ELSE completion

\* lines 68-71: close() inside its own try; what close raises is logged, and
\* the pending completion stands
FinallyCompletion(completion, closed) == completion

\* lines 42-71
ConnectAndExecute(e, q, s) ==
    LET c == EngineConnect(e, s)
        connection_established == c.tag = "return"
        e1 == Connected(e, c)
        body == IF connection_established THEN AfterConnect(e1, q, s) ELSE c
        handled == ExceptClauses(body)
        closing == CloseGuard(connection_established)
        cl == IF closing THEN EngineClose(e1, s) ELSE Unused
        e2 == IF closing THEN Closed(e1, cl) ELSE e1
    IN  [ret |-> IF closing THEN FinallyCompletion(handled, cl) ELSE handled,
         calls |-> <<Call("connect", c)>>
                   \o (IF connection_established
                       THEN <<Call("execute_query", EngineExecuteQuery(e1, q, s))>>
                       ELSE <<>>)
                   \o (IF closing THEN <<Call("close", cl)>> ELSE <<>>),
         engine |-> e2]

ValidationPassed_AnyReturn(v) == v.tag = "return"

\* lines 32-40: the validation gate; TRUE only when validate_code returned a
\* true value
ValidationPassed(v) == v.tag = "return" /\ v.value

\* lines 15-71
execute_safely(e, q, s) ==
    IF ~ e.has_validate
    THEN [ret |-> Outcome(FALSE, List(<<>>), MissingValidateMsg), calls |-> <<>>, engine |-> e]
    ELSE IF ~ e.has_execute
    THEN [ret |-> Outcome(FALSE, List(<<>>), MissingExecuteMsg), calls |-> <<>>, engine |-> e]
    ELSE
      LET v == EngineValidate(e, q, s) IN
      IF ValidationPassed(v)
      THEN LET r == ConnectAndExecute(e, q, s) IN
           [r EXCEPT !.calls = <<Call("validate_code", v)>> \o r.calls]
      ELSE [ret |-> IF v.tag = "raise"
                    THEN Outcome(FALSE, List(<<>>), ValidationErrorMsg(v))
                    ELSE Outcome(FALSE, List(<<>>), ValidationRejectedMsg(q)),
            calls |-> <<Call("validate_code", v)>>,
            engine |-> e]

(***************************************************************************)
(* The agent's wiring (main.py, DataAnalysisAgent.__init__): a primary     *)
(* engine and, when enable_fallback is set, a fallback engine of the other *)
(* kind.  QueryExecutor keeps one engine (self.engine) and has no field    *)
(* for a fallback engine, a flag or a metric.                              *)
(***************************************************************************)
OtherKind(kind) == IF kind = "spark" THEN "duckdb" ELSE "spark"

\* lines 41-47
AgentEngines(primary_engine, ef) ==
    [primary |-> NewEngine(primary_engine, TRUE, TRUE),
     fallback |-> IF ef THEN NewEngine(OtherKind(primary_engine), TRUE, TRUE) ELSE None]

AllGoes == Script(Return(TRUE), Return(None), Return(None), Return(List(<<1>>)), Return(None))
ConnectFails == Script(Return(TRUE), Return(None), Raise("Exception", <<"boom">>), Unused, Unused)
FallbackScripts == {AllGoes, ConnectFails}

InitExec ==
    /\ \/ \E k \in {"spark", "duckdb"}, ef \in BOOLEAN :
             /\ engine = AgentEngines(k, ef).primary
             /\ fallback = AgentEngines(k, ef).fallback
             /\ enable_fallback = ef
       \/ \E hv \in BOOLEAN, hx \in BOOLEAN :
             /\ engine = NewEngine("stub", hv, hx)
             /\ fallback = None
             /\ enable_fallback = FALSE
    /\ query = <<>>
    /\ calls = <<>>
    /\ ret = Unused
    /\ fallback_calls = <<>>
    /\ fallback_script = AllGoes
    /\ history = <<>>
    /\ context = Unused
    /\ responses = <<>>
    /\ llm_calls = 0
    /\ sleeps = <<>>
    /\ plan_ret = Unused
    /\ run = [pc |-> "idle", steps |-> <<>>, i |-> 0, log |-> <<>>, results |-> <<>>,
              all_data |-> <<>>, plotted |-> Unused, raised |-> Unused,
              start |-> Unused, base |-> 0, unclosed |-> FALSE, payload |-> Unused]

\* one call of self.executor.execute_safely(query), made when the caller holds
\* no outcome of an earlier call
ExecuteSafely ==
    /\ ret = Unused
    /\ \E q \in Queries, s \in Scripts(engine.kind), fs \in FallbackScripts :
        LET r == execute_safely(engine, q, s) IN
        /\ engine' = r.engine
        /\ query' = q
        /\ calls' = r.calls
        /\ ret' = r.ret
        /\ fallback_calls' = <<>>
        /\ fallback_script' = fs
        /\ UNCHANGED <<enable_fallback, fallback, memVars, planVars, run>>

\* the caller unpacks the triple (success, result, error = ...) and goes on;
\* the engine keeps the session state the call left it in
TakeOutcome ==
    /\ ret # Unused
    /\ ret' = Unused
    /\ query' = <<>>
    /\ calls' = <<>>
    /\ fallback_calls' = <<>>
    /\ fallback_script' = AllGoes
    /\ UNCHANGED <<engine, enable_fallback, fallback, memVars, planVars, run>>

\* engine.connect() and engine.close() called on the executor's engine by
\* another client of it (the orchestrator brackets get_schema with them)
DirectConnect ==
    /\ ret = Unused
    /\ \E c \in ConnectOutcomes : engine' = Connected(engine, c)
    /\ UNCHANGED <<query, calls, ret, enable_fallback, fallback, fallback_calls,
                   fallback_script, memVars, planVars, run>>

DirectClose ==
    /\ ret = Unused
    /\ \E cl \in CloseOutcomes : engine' = Closed(engine, cl)
    /\ UNCHANGED <<query, calls, ret, enable_fallback, fallback, fallback_calls,
                   fallback_script, memVars, planVars, run>>

\* engine.get_schema() of the concrete engines: connect() when the handle is
\* None, then the listing of the tables on the handle.  close() keeps the
\* handle, so after it the listing runs on the closed session, which the
\* backend refuses.  c and listing are what the backend does when asked
EngineGetSchema(e, c, listing) ==
    [engine |-> IF e.session = "none" THEN Connected(e, c) ELSE e,
     calls |-> (IF e.session = "none" THEN <<Call("connect", c)>> ELSE <<>>)
               \o <<Call("get_schema",
                         IF e.session = "none" /\ c.tag = "raise" THEN c
                         ELSE IF e.session = "closed"
                         THEN Raise("Exception", <<"closed">>)
                         ELSE listing)>>]

\* engine.get_schema() called on the executor's engine; calls keeps what it
\* invoked until the next execute_safely call
DirectGetSchema ==
    /\ ret = Unused
    /\ engine.kind # "stub"
    /\ \E c \in ConnectOutcomes, listing \in {Return(None), Raise("Exception", <<"boom">>)} :
        /\ engine' = EngineGetSchema(engine, c, listing).engine
        /\ calls' = EngineGetSchema(engine, c, listing).calls
    /\ UNCHANGED <<query, ret, enable_fallback, fallback, fallback_calls,
                   fallback_script, memVars, planVars, run>>

NextExec == ExecuteSafely \/ TakeOutcome \/ DirectConnect \/ DirectClose \/ DirectGetSchema

SpecExec == InitExec /\ [][NextExec]_vars


(***************************************************************************)
(* ExecutionMemory (src/src/core/memory.py).  A record keeps every field   *)
(* of the source's dict but the timestamp, which no operation reads.       *)
(* Text is a sequence of one-character strings; the fixed parts of the     *)
(* rendered context are single chunks.                                     *)
(***************************************************************************)
MaxFailuresShown == 3
FailureQueryChars == 100
PreviewChars == 200

Digits == <<"0","1","2","3","4","5","6","7","8","9">>

RECURSIVE StrInt(_)
\* str(n) of a natural number
StrInt(n) ==
    IF n < 10 THEN <<Digits[n + 1]>>
    ELSE StrInt(n \div 10) \o <<Digits[(n % 10) + 1]>>

RECURSIVE JoinRows(_)
JoinRows(items) ==
    IF items = <<>> THEN <<>>
    ELSE IF Len(items) = 1 THEN StrInt(items[1])
    ELSE StrInt(items[1]) \o <<",", " ">> \o JoinRows(Tail(items))

\* str(result) of a list of rows
StrOf(result) == <<"[">> \o JoinRows(result.items) \o <<"]">>

\* the text an f-string puts for a value that may be None
Format(v) == IF v = None THEN <<"N","o","n","e">> ELSE v.text

Text(t) == [tag |-> "str", text |-> t]

\* str(result)[:200] if result is not None else None
ResultPreview(result) ==
    IF result # None THEN Text(Take(StrOf(result), PreviewChars)) ELSE None

record_step_Prepend(h, step_id, step_name, q, result, error, success) ==
    <<[step_id |-> step_id,
       step_name |-> step_name,
       query |-> q,
       success |-> success,
       result_preview |-> ResultPreview(result),
       error |-> error]>> \o h

\* lines 12-24
record_step(h, step_id, step_name, q, result, error, success) ==
    Append(h, [step_id |-> step_id,
               step_name |-> step_name,
               query |-> q,
               success |-> success,
               result_preview |-> ResultPreview(result),
               error |-> error])

ContextHeader == <<"[earlier failures]\n">>

\* lines 34-36: the three lines rendered for one failing record
RenderFailure(f) ==
    <<"step ">> \o StrInt(f.step_id) \o <<": ">> \o f.step_name \o <<"\n">>
    \o <<"  query: ">> \o Take(f.query, FailureQueryChars) \o <<"...\n">>
    \o <<"  error: ">> \o Format(f.error) \o <<"\n">>

RECURSIVE RenderAll(_)
RenderAll(fs) ==
    IF fs = <<>> THEN <<>> ELSE RenderFailure(Head(fs)) \o RenderAll(Tail(fs))

IsFailing(h) == ~ h.success

LastFailures_First(failures) ==
    SubSeq(failures, 1,
           IF Len(failures) > MaxFailuresShown THEN MaxFailuresShown ELSE Len(failures))

\* failures[-3:]
LastFailures(failures) ==
    SubSeq(failures,
           IF Len(failures) > MaxFailuresShown
           THEN Len(failures) - MaxFailuresShown + 1 ELSE 1,
           Len(failures))

\* lines 26-37
get_failure_context(h) ==
    LET failures == SelectSeq(h, IsFailing) IN
    IF failures = <<>> THEN <<>>
    ELSE ContextHeader \o RenderAll(LastFailures(failures))

(***************************************************************************)
(* The calls a client of ExecutionMemory makes.                            *)
(***************************************************************************)
StepIds == {1, 2}
StepNames == {<<"l","o","a","d">>}
BigResult == List([i \in 1..BigRows |-> 1])

\* (query, error) of a failing attempt and result of a successful one
FailingInputs == {<<QSelect, Text(<<"b","o","o","m">>)>>, <<QLong, None>>}

RecordStep ==
    /\ Len(history) < MaxHistory
    /\ \E id \in StepIds, name \in StepNames :
         \/ \E f \in FailingInputs :
               history' = record_step(history, id, name, f[1], List(<<>>), f[2], FALSE)
         \/ history' = record_step(history, id, name, QLimit,
                                    IF id = 1 THEN None ELSE BigResult, None, TRUE)
    /\ context' = Unused
    /\ UNCHANGED <<execVars, planVars, run>>

GetFailureContext ==
    /\ context' = Return(get_failure_context(history))
    /\ UNCHANGED <<history, execVars, planVars, run>>

\* lines 39-41
Clear ==
    /\ history' = <<>>
    /\ context' = Unused
    /\ UNCHANGED <<execVars, planVars, run>>

ExecIdle ==
    /\ engine = NewEngine("duckdb", TRUE, TRUE)
    /\ fallback = None
    /\ enable_fallback = FALSE
    /\ query = <<>>
    /\ calls = <<>>
    /\ ret = Unused
    /\ fallback_calls = <<>>
    /\ fallback_script = AllGoes

PlanIdle ==
    /\ responses = <<>>
    /\ llm_calls = 0
    /\ sleeps = <<>>
    /\ plan_ret = Unused
    /\ run = [pc |-> "idle", steps |-> <<>>, i |-> 0, log |-> <<>>, results |-> <<>>,
              all_data |-> <<>>, plotted |-> Unused, raised |-> Unused,
              start |-> Unused, base |-> 0, unclosed |-> FALSE, payload |-> Unused]

InitMem ==
    /\ ExecIdle
    /\ PlanIdle
    /\ history = <<>>
    /\ context = Unused

NextMem == RecordStep \/ GetFailureContext \/ Clear

SpecMem == InitMem /\ [][NextMem]_vars

(***************************************************************************)
(* OutputParser and PlannerAgent (src/src/agents/planner.py).  A response  *)
(* text is a sequence of tokens: the characters the code looks for are     *)
(* tokens of their own ("{", "}", the fence marker, the json tag, blanks), *)
(* and every other run of characters is one chunk holding none of them, so *)
(* the regular expressions, find, rfind, the slice and strip act on tokens *)
(* as they act on characters.                                              *)
(***************************************************************************)
\* the markdown fence marker, three backquotes
Fence == "<fence>"
JsonTags == {"json", "JSON"}
Whitespace == {" ", "\n"}

RECURSIVE SkipWhitespace(_)
SkipWhitespace(s) ==
    IF s # <<>> /\ Head(s) \in Whitespace THEN SkipWhitespace(Tail(s)) ELSE s

RECURSIVE RemoveJsonFences(_)
\* line 57: a fence marker, json in either case and the blanks after it
RemoveJsonFences(s) ==
    IF s = <<>> THEN <<>>
    ELSE IF Len(s) >= 2 /\ s[1] = Fence /\ s[2] \in JsonTags
         THEN RemoveJsonFences(SkipWhitespace(Tail(Tail(s))))
         ELSE <<Head(s)>> \o RemoveJsonFences(Tail(s))

\* line 58: every fence marker left
RemoveFences(s) == SelectSeq(s, LAMBDA t : t # Fence)

\* str.find and str.rfind, 1-based; 0 when the token does not occur
Find(s, t) ==
    IF \E i \in DOMAIN s : s[i] = t
    THEN CHOOSE i \in DOMAIN s : s[i] = t /\ \A j \in 1..(i - 1) : s[j] # t
    ELSE 0

RFind_First(s, t) == Find(s, t)

RFind(s, t) ==
    IF \E i \in DOMAIN s : s[i] = t
    THEN CHOOSE i \in DOMAIN s : s[i] = t /\ \A j \in (i + 1)..Len(s) : s[j] # t
    ELSE 0

RECURSIVE RStrip(_)
RStrip(s) ==
    IF s # <<>> /\ s[Len(s)] \in Whitespace THEN RStrip(SubSeq(s, 1, Len(s) - 1)) ELSE s

Strip(s) == RStrip(SkipWhitespace(s))

\* lines 55-65; the except clause is for a text that is not a str
extract_json(text) ==
    LET cleaned == RemoveFences(RemoveJsonFences(text))
        start == Find(cleaned, "{")
        end == RFind(cleaned, "}")
    IN  IF start # 0 /\ end # 0
        THEN Strip(SubSeq(cleaned, start, end))
        ELSE Strip(cleaned)

(***************************************************************************)
(* JSON documents.  json.loads is the inverse of the serialisation on the  *)
(* values below and raises JSONDecodeError on every other text.            *)
(***************************************************************************)
allowed == {"SQL_Executor", "Python_Plotter", "RAG_Search"}
ToolNames == {"SQL_Executor", "Python_Plotter", "Shell"}
PlanStepIds == {0, 1, 2}
\* steps of one plan
MaxSteps == 2

StepDict(id, tool) == [step_id |-> id, tool_needed |-> tool]

PlanKeys == {"goal", "steps", "risk_assessment"}
JDict(keys, steps) == [tag |-> "dict", keys |-> keys, steps |-> steps]
JList(items) == [tag |-> "list", items |-> items]
JNumber == [tag |-> "number"]

PlanDicts ==
    LET StepDicts == {StepDict(id, tool) : id \in PlanStepIds, tool \in ToolNames}
    IN  {JDict(PlanKeys, steps) : steps \in UNION {[1..n -> StepDicts] : n \in 0..MaxSteps}}
JsonValues ==
    PlanDicts \cup {JDict({}, <<>>), JNumber, JList(<<>>)}
    \cup {JList(<<p>>) : p \in PlanDicts}

DumpStep(st) ==
    <<"{", "step_id:">> \o StrInt(st.step_id)
    \o <<",step_name:n,description:d,tool_needed:", st.tool_needed, ",reasoning:r", "}">>

RECURSIVE DumpSteps(_)
DumpSteps(steps) ==
    IF steps = <<>> THEN <<>>
    ELSE DumpStep(Head(steps))
         \o (IF Len(steps) > 1 THEN <<",">> ELSE <<>>) \o DumpSteps(Tail(steps))

RECURSIVE Dumps(_)
Dumps(v) ==
    CASE v.tag = "number" -> <<"42">>
      [] v.tag = "list" ->
            <<"[">> \o (IF v.items = <<>> THEN <<>> ELSE Dumps(v.items[1])) \o <<"]">>
      [] v.tag = "dict" ->
            <<"{">>
            \o (IF "goal" \in v.keys THEN <<"goal:g,">> ELSE <<>>)
            \o (IF "steps" \in v.keys
                THEN <<"steps:[">> \o DumpSteps(v.steps) \o <<"],">> ELSE <<>>)
            \o (IF "risk_assessment" \in v.keys THEN <<"risk_assessment:r">> ELSE <<>>)
            \o <<"}">>

JsonDocs == {[text |-> Dumps(v), value |-> v] : v \in JsonValues}

\* json.loads(cleaned_json), line 105
JsonLoads(s) ==
    IF \E d \in JsonDocs : d.text = s
    THEN Return((CHOOSE d \in JsonDocs : d.text = s).value)
    ELSE Raise("JSONDecodeError", <<>>)

AnalysisPlan_EmptyStepsPass(plan_dict) ==
    IF plan_dict.tag # "dict" THEN Raise("TypeError", <<>>)
    ELSE IF \/ ~(PlanKeys \subseteq plan_dict.keys)
            \/ \E i \in DOMAIN plan_dict.steps : plan_dict.steps[i].tool_needed \notin allowed
         THEN Raise("ValidationError", <<>>)
         ELSE Return([goal |-> "g", steps |-> plan_dict.steps, risk_assessment |-> "r"])

\* AnalysisPlan(**plan_dict), line 106: ** needs a mapping; the model
\* validates the fields, the steps and the tool of each step
AnalysisPlan(plan_dict) ==
    IF plan_dict.tag # "dict" THEN Raise("TypeError", <<>>)
    ELSE IF \/ ~(PlanKeys \subseteq plan_dict.keys)
            \/ \E i \in DOMAIN plan_dict.steps : plan_dict.steps[i].tool_needed \notin allowed
            \/ plan_dict.steps = <<>>
         THEN Raise("ValidationError", <<>>)
         ELSE Return([goal |-> "g", steps |-> plan_dict.steps, risk_assessment |-> "r"])

(***************************************************************************)
(* The responses of the language model: a document, bare or in a fenced    *)
(* block, between leading and trailing prose; a text with no document; or  *)
(* an error of the transport, which is no ValueError.                      *)
(***************************************************************************)
ValidPlan1 == JDict(PlanKeys, <<StepDict(1, "SQL_Executor")>>)
ValidPlan2 == JDict(PlanKeys, <<StepDict(1, "SQL_Executor"), StepDict(2, "SQL_Executor")>>)
Documents ==
    {ValidPlan1, ValidPlan2,
     JDict(PlanKeys, <<>>),
     JDict(PlanKeys, <<StepDict(1, "Shell")>>),
     JDict(PlanKeys, <<StepDict(1, "SQL_Executor"), StepDict(2, "Python_Plotter")>>),
     JDict(PlanKeys, <<StepDict(1, "SQL_Executor"), StepDict(1, "SQL_Executor")>>),
     JDict(PlanKeys, <<StepDict(2, "SQL_Executor"), StepDict(1, "SQL_Executor")>>),
     JDict(PlanKeys, <<StepDict(0, "SQL_Executor")>>),
     JDict({}, <<>>),
     JNumber,
     JList(<<ValidPlan1>>)}

PlainLead == <<"Here is the plan:", "\n">>
PlainTrail == <<"\n", "Hope this helps">>
LeadingProse == {<<>>, PlainLead, <<"Using ", "{", "table", "}", ":", "\n">>, <<"1", "}", " ">>}
TrailingProse == {<<>>, PlainTrail, <<"\n", "Edit ", "{", "x", "}">>, <<" ", "{", "...">>}

Fenced(tag, doc) == <<Fence>> \o tag \o <<"\n">> \o doc \o <<"\n", Fence>>
FenceTags == {<<>>, <<"json">>, <<"JSON">>}
Blocks(doc) == {doc} \cup {Fenced(tag, doc) : tag \in FenceTags}

Texts ==
    {lead \o block \o trail :
        lead \in LeadingProse, trail \in TrailingProse,
        block \in UNION {Blocks(Dumps(v)) : v \in Documents}}
    \cup {<<"Sorry, I cannot help">>}

TransportError == Raise("APIError", <<>>)
Responses == {Return(t) : t \in Texts} \cup {TransportError}

\* one run of the body of generate_plan, lines 92-115
Attempt(response) ==
    IF response.tag = "raise" THEN response
    ELSE LET cleaned_json == extract_json(response.value)
             plan_dict == JsonLoads(cleaned_json)
         IN  IF plan_dict.tag = "raise" THEN plan_dict
             ELSE AnalysisPlan(plan_dict.value)

AttemptOf == [r \in Responses |-> Attempt(r)]

(***************************************************************************)
(* The retry decorator of generate_plan, lines 78-83.                      *)
(***************************************************************************)
MaxAttempts == 3
WaitMultiplier == 1
WaitMin == 2
WaitMax == 10
ExpBase == 2

Max(a, b) == IF a > b THEN a ELSE b
Min(a, b) == IF a < b THEN a ELSE b

\* stop_after_attempt(3)
StopAfterAttempt_Early(attempt_number) == attempt_number >= MaxAttempts - 1

StopAfterAttempt(attempt_number) == attempt_number >= MaxAttempts

\* wait_exponential(multiplier=1, min=2, max=10) after the given attempt
WaitExponential_Doubling(attempt_number) ==
    Max(Max(0, WaitMin), Min(WaitMultiplier * ExpBase ^ attempt_number, WaitMax))

WaitExponential(attempt_number) ==
    Max(Max(0, WaitMin), Min(WaitMultiplier * ExpBase ^ (attempt_number - 1), WaitMax))

\* retry_if_exception_type((JSONDecodeError, ValidationError, ValueError));
\* JSONDecodeError and pydantic's ValidationError are ValueErrors
RetryIfExceptionType(type) == type \in {"JSONDecodeError", "ValidationError", "ValueError"}

RECURSIVE RunAttempts(_, _, _)
\* the attempts from attempt_number on, rs[k] being what llm.chat does at attempt k
RunAttempts(rs, attempt_number, slept) ==
    LET outcome == AttemptOf[rs[Min(attempt_number, Len(rs))]]
        done == [plan_ret |-> outcome, llm_calls |-> attempt_number, sleeps |-> slept]
    IN  IF outcome.tag = "return" THEN done
        ELSE IF ~RetryIfExceptionType(outcome.type) THEN done
        ELSE IF StopAfterAttempt(attempt_number) THEN done
        ELSE RunAttempts(rs, attempt_number + 1,
                         Append(slept, WaitExponential(attempt_number)))

generate_plan(rs) == RunAttempts(rs, 1, <<>>)

\* what llm.chat does at the attempts after the first
LaterResponses ==
    {Return(PlainLead \o Fenced(<<"json">>, Dumps(ValidPlan2)) \o PlainTrail),
     Return(<<"Sorry, I cannot help">>),
     Return(Dumps(JDict(PlanKeys, <<>>))),
     Return(Dumps(JNumber)),
     TransportError}

Retried(r) == AttemptOf[r].tag = "raise" /\ RetryIfExceptionType(AttemptOf[r].type)

\* one call of generate_plan with a response for each attempt; an attempt
\* that is not made has the response of the attempt before it
GeneratePlan ==
    /\ plan_ret = Unused
    /\ \E r1 \in Responses :
         \E r2 \in (IF Retried(r1) THEN LaterResponses ELSE {r1}) :
           \E r3 \in (IF Retried(r1) /\ Retried(r2) THEN LaterResponses ELSE {r2}) :
             LET out == generate_plan(<<r1, r2, r3>>)
             IN  /\ responses' = <<r1, r2, r3>>
                 /\ llm_calls' = out.llm_calls
                 /\ sleeps' = out.sleeps
                 /\ plan_ret' = out.plan_ret
    /\ UNCHANGED <<execVars, memVars, run>>

\* the caller takes the plan or the exception (main.py, lines 92 and 192)
TakePlan ==
    /\ plan_ret # Unused
    /\ responses' = <<>>
    /\ llm_calls' = 0
    /\ sleeps' = <<>>
    /\ plan_ret' = Unused
    /\ UNCHANGED <<execVars, memVars, run>>

InitPlan ==
    /\ ExecIdle
    /\ PlanIdle
    /\ history = <<>>
    /\ context = Unused

NextPlan == GeneratePlan \/ TakePlan

SpecPlan == InitPlan /\ [][NextPlan]_vars

(***************************************************************************)
(* CorrectorAgent.correct (src/src/agents/corrector.py): the body inside   *)
(* the retry decorator of line 26, which retries on any exception, stops   *)
(* after 2 attempts and then raises RetryError.                            *)
(***************************************************************************)
CorrMaxAttempts == 2
CorrWaitMin == 1
CorrWaitMax == 5

\* what llm.chat gives the first and the second call of one correct call: an
\* error, no text, a blank text, a statement with blanks around it, an unsafe
\* statement; the second differs from the first only after a first that raised
CorrectorScripts ==
    {<<r, r>> : r \in {TransportError, Return(None), Return(Text(<<" ">>)),
                       Return(Text(<<" ">> \o QLimit \o <<"\n">>)),
                       Return(Text(QDropTable))}}
        \cup {<<TransportError, Return(Text(QLimit))>>}

CorrectBody_Propagates(response) ==
    IF response.tag = "raise" THEN response
    ELSE IF response.value = None THEN Return(None)
    ELSE Return(Text(Strip(response.value.text)))

\* lines 54-65: the except clause answers None for whatever the try block
\* raises, the TypeError of slicing a None answer included
CorrectBody(response) ==
    IF response.tag = "raise" THEN Return(None)
    ELSE IF response.value = None THEN Return(None)
    ELSE Return(Text(Strip(response.value.text)))

RECURSIVE RunCorrect(_, _, _)
\* line 26: the attempts from attempt_number on
RunCorrect(rs, attempt_number, slept) ==
    LET outcome == CorrectBody(rs[attempt_number])
        done == [responses |-> rs, ret |-> outcome,
                 llm_calls |-> attempt_number, sleeps |-> slept]
    IN  IF outcome.tag = "return" THEN done
        ELSE IF attempt_number >= CorrMaxAttempts
        THEN [done EXCEPT !.ret = Raise("RetryError", <<"RetryError">>)]
        ELSE RunCorrect(rs, attempt_number + 1,
                        Append(slept, Max(Max(0, CorrWaitMin),
                                          Min(WaitMultiplier * ExpBase ^ (attempt_number - 1),
                                              CorrWaitMax))))

\* lines 26-65
correct(rs) == RunCorrect(rs, 1, <<>>)

(***************************************************************************)
(* DataAnalysisAgent.analyze (src/src/main.py, lines 62-198), one action   *)
(* per stage: the start up to the plan, one iteration of the step loop,    *)
(* the end.  run.log keeps, for every iteration, the step and the index of *)
(* its record in the memory and, for the latest iteration, what was called *)
(* and what it answered; run.raised is the exception that ended the run;   *)
(* run.start keeps what the calls before the loop answered.  Two fields    *)
(* outlive the run: run.base, the length of the history when the run       *)
(* began, and run.unclosed, whether a session that connect() opened has    *)
(* had no close() call yet.                                                *)
(* analyze uses executor.primary_engine, the strategy argument of          *)
(* execute_safely and executor.get_metrics(), which executor.py does not   *)
(* define; they are taken as the spec describes them: the primary engine   *)
(* is the executor's engine, the primary strategy runs execute_safely on   *)
(* it, and get_metrics returns the counters.                               *)
(***************************************************************************)
NoRun ==
    [pc |-> "idle", steps |-> <<>>, i |-> 0, log |-> <<>>, results |-> <<>>,
     all_data |-> <<>>, plotted |-> Unused, raised |-> Unused,
              start |-> Unused, base |-> 0, unclosed |-> FALSE, payload |-> Unused]

\* step.description of every step of the model
StepDescription == QSelect

\* optimize_query: the cleaned answer of the language model or, when the call
\* raises, the description it was given (sql_generator.py, lines 106-119)
OptimizedQueries == {QLimit, StepDescription}

\* the backend of the primary engine during one execute_safely call: all
\* goes, or connect raises
AgentScripts == {AllGoes, ConnectFails}

\* what generate_plan gives analyze
PlanOutcomes ==
    {generate_plan(<<r, r, r>>).plan_ret :
        r \in {Return(Dumps(ValidPlan1)), Return(Dumps(ValidPlan2)),
               Return(Dumps(JDict(PlanKeys, <<StepDict(2, "SQL_Executor"),
                                              StepDict(1, "SQL_Executor")>>))),
               Return(Dumps(JDict(PlanKeys, <<StepDict(1, "SQL_Executor"),
                                              StepDict(2, "Python_Plotter")>>))),
               Return(<<"Sorry, I cannot help">>), TransportError}}

\* executor.primary_engine
primary_engine(e) == e

\* executor.get_metrics()
get_metrics(log) == Return(Len(log))

FailedPayload_Reraise(e, h) == e

\* lines 192-198
FailedPayload(e, h) ==
    Return([status |-> "failed", error |-> e.text, results |-> <<>>,
            execution_history |-> h])

\* lines 183-190
SuccessPayload(results, h) ==
    Return([status |-> "success", error |-> <<>>, results |-> results,
            execution_history |-> h])

NeedsCorrection_Always(first) == TRUE

\* line 115: if not success and error
NeedsCorrection(first) == ~ first.success /\ first.error_message # <<>>

\* line 124: if revised_query
IsRevised(revised_query) == revised_query # None /\ revised_query.text # <<>>

StepException_OnFailure(c, last, saved) ==
    IF c # Unused /\ c.ret.tag = "raise" THEN c.ret
    ELSE IF ~ last.success THEN Raise("Exception", last.error_message)
    ELSE IF saved.tag = "raise" THEN saved
    ELSE Unused

\* the exception that leaves an iteration of the loop: what correct raises,
\* or what record_solution raises; a failed execution raises nothing
StepException(c, last, saved) ==
    IF c # Unused /\ c.ret.tag = "raise" THEN c.ret
    ELSE IF saved.tag = "raise" THEN saved
    ELSE Unused

\* lines 124-125: a second execution follows a correction that gave a query
Reexecutes(c) == c # Unused /\ c.ret.tag = "return" /\ IsRevised(c.ret.value)

\* what a step of tool SQL_Executor ends with: x1 and x2 are the first and the
\* last execute_safely call (the same when there was one), c the correct call
StepResult(x1, c, x2, solution_saved) ==
    [engine |-> x2.engine,
     raised |-> StepException(c, x2.ret.value,
                              IF Reexecutes(c) /\ x2.ret.value.success
                              THEN solution_saved ELSE Unused),
     last |-> x2.ret.value,
     first |-> x1.ret.value,
     corrector |-> c,
     second |-> IF Reexecutes(c) THEN x2.ret.value ELSE Unused,
     saved |-> IF Reexecutes(c) /\ x2.ret.value.success THEN solution_saved ELSE Unused]

\* lines 124-137: the second execution and the saving of the solution
AfterCorrect(x1, c, s2, solution_saved) ==
    StepResult(x1, c,
               IF Reexecutes(c) THEN execute_safely(x1.engine, c.ret.value.text, s2) ELSE x1,
               solution_saved)

\* lines 109-137 for a step of tool SQL_Executor, x1 being the first
\* execute_safely call
SqlStep(x1, rs, s2, solution_saved) ==
    AfterCorrect(x1, IF NeedsCorrection(x1.ret.value) THEN correct(rs) ELSE Unused,
                 s2, solution_saved)

SqlStepOf ==
    [e \in {[NewEngine(k, TRUE, TRUE) EXCEPT !.session = x] :
                k \in {"spark", "duckdb"}, x \in {"none", "open", "closed"}},
     q \in OptimizedQueries, s1 \in AgentScripts, rs \in CorrectorScripts,
     s2 \in AgentScripts, solution_saved \in {Return(None), Raise("Exception", <<"kb">>)}
        |-> SqlStep(execute_safely(e, q, s1), rs, s2, solution_saved)]

StartException_PlanOnly(searched, c, schema, cl, plan) ==
    IF plan.tag = "raise" THEN plan ELSE Unused

\* lines 75-93: the first exception among the calls before the loop, each
\* made only when the calls before it returned
StartException(searched, c, schema, cl, plan) ==
    IF searched.tag = "raise" THEN searched
    ELSE IF c.tag = "raise" THEN c
    ELSE IF schema.tag = "raise" THEN schema
    ELSE IF cl.tag = "raise" THEN cl
    ELSE IF plan.tag = "raise" THEN plan
    ELSE Unused

\* lines 75-93: knowledge retrieval, schema fetch between connect and close,
\* plan generation.  The runs explored are those of an agent on which at most
\* one run began with records in the memory
AnalyzeStart ==
    /\ run.pc = "idle"
    /\ run.base = 0
    /\ \E searched \in {Return(None), Raise("Exception", <<"kb">>)},
          c \in {Return(None), Raise("Exception", <<"boom">>)},
          schema \in {Return(None), Raise("Exception", <<"schema">>)},
          cl \in CloseOutcomes,
          plan \in PlanOutcomes :
        LET e0 == primary_engine(engine)
            connects == searched.tag = "return"
            lists == connects /\ c.tag = "return"
            closes == lists /\ schema.tag = "return"
            plans == closes /\ cl.tag = "return"
            e1 == IF connects THEN Connected(e0, c) ELSE e0
            e2 == IF closes THEN Closed(e1, cl) ELSE e1
            raised == StartException(searched, c, schema, cl, plan)
            begun == [run EXCEPT
                        !.base = Len(history),
                        !.unclosed = IF lists THEN ~ closes ELSE @,
                        !.start = [searched |-> searched,
                                   connect |-> IF connects THEN c ELSE Unused,
                                   schema |-> IF lists THEN schema ELSE Unused,
                                   close |-> IF closes THEN cl ELSE Unused,
                                   plan |-> IF plans THEN plan ELSE Unused]]
        IN  /\ engine' = e2
            /\ run' = IF raised # Unused
                      THEN [begun EXCEPT !.pc = "done", !.raised = raised,
                                         !.payload = FailedPayload(raised, history)]
                      ELSE [begun EXCEPT !.pc = "steps", !.steps = plan.value.steps]
    /\ UNCHANGED <<query, calls, ret, enable_fallback, fallback, fallback_calls,
                   fallback_script, memVars, planVars>>

\* lines 100-155: one iteration of the loop over plan.steps
AnalyzeStep ==
    /\ run.pc = "steps"
    /\ run.i < Len(run.steps)
    /\ LET step == run.steps[run.i + 1]
           earlier == [k \in DOMAIN run.log |->
                         [run.log[k] EXCEPT !.query = Unused, !.first = Unused,
                                            !.failed_query = Unused,
                                            !.failure_context = Unused,
                                            !.corrector = Unused, !.second = Unused,
                                            !.saved = Unused]]
       IN
       IF step.tool_needed # "SQL_Executor"
       THEN /\ run' = [run EXCEPT !.i = @ + 1,
                                  !.log = Append(earlier, [step_id |-> step.step_id,
                                                     tool |-> step.tool_needed,
                                                     query |-> Unused,
                                                     first |-> Unused,
                                                     failed_query |-> Unused,
                                                     failure_context |-> Unused,
                                                     corrector |-> Unused,
                                                     second |-> Unused, saved |-> Unused,
                                                     record |-> 0])]
            /\ UNCHANGED <<engine, history>>
       ELSE \* the answers of the corrector, of the second execution and of
            \* record_solution are drawn when the step asks for them
            \E q \in OptimizedQueries, s1 \in AgentScripts :
            \E rs \in IF SqlStepOf[engine, q, s1, <<TransportError, TransportError>>,
                                   AllGoes, Return(None)].corrector = Unused
                       THEN {<<TransportError, TransportError>>} ELSE CorrectorScripts :
            \E s2 \in IF SqlStepOf[engine, q, s1, rs, AllGoes, Return(None)].second = Unused
                       THEN {AllGoes} ELSE AgentScripts :
            \E solution_saved \in
                    IF SqlStepOf[engine, q, s1, rs, s2, Return(None)].saved = Unused
                    THEN {Return(None)}
                    ELSE {Return(None), Raise("Exception", <<"kb">>)} :
            \E r \in {SqlStepOf[engine, q, s1, rs, s2, solution_saved]} :
              LET entry == [step_id |-> step.step_id, tool |-> step.tool_needed,
                            query |-> Text(q),
                            first |-> r.first,
                            failed_query |-> IF r.corrector # Unused
                                             THEN Text(StepDescription) ELSE Unused,
                            failure_context |-> IF r.corrector # Unused
                                                THEN Text(get_failure_context(history))
                                                ELSE Unused,
                            corrector |-> r.corrector,
                            second |-> r.second, saved |-> r.saved,
                            record |-> IF r.raised # Unused THEN 0 ELSE Len(history) + 1]
              IN
              /\ engine' = r.engine
              /\ IF r.raised # Unused
                 THEN /\ history' = history
                      /\ run' = [run EXCEPT !.pc = "done", !.i = @ + 1,
                                            !.log = Append(earlier, entry),
                                            !.raised = r.raised,
                                            !.payload = FailedPayload(r.raised, history)]
                 ELSE /\ history' = record_step(history, step.step_id, <<"n">>,
                                                StepDescription, r.last.result,
                                                Text(r.last.error_message), r.last.success)
                      /\ run' = [run EXCEPT
                                   !.i = @ + 1,
                                   !.log = Append(earlier, entry),
                                   !.all_data = IF r.last.success
                                                THEN Append(@, r.last.result) ELSE @,
                                   !.results = [k \in DOMAIN @ \cup {step.step_id} |->
                                                  IF k = step.step_id
                                                  THEN [success |-> r.last.success,
                                                        rows |-> Len(r.last.result.items),
                                                        error |-> r.last.error_message]
                                                  ELSE @[k]]]
    /\ UNCHANGED <<query, calls, ret, enable_fallback, fallback, fallback_calls,
                   fallback_script, context, planVars>>

\* lines 157-190: the plots of the collected results, which the plotter is
\* asked for when a step succeeded, then the metrics and the payload
AnalyzeFinish ==
    /\ run.pc = "steps"
    /\ run.i = Len(run.steps)
    /\ \E plotted \in {Return(None)}
                        \cup (IF run.all_data # <<>>
                              THEN {Raise("AttributeError", <<"plot">>)} ELSE {}),
          metrics \in {get_metrics(run.log)} :
        LET raised == IF plotted.tag = "raise" THEN plotted
                      ELSE IF metrics.tag = "raise" THEN metrics
                      ELSE Unused
        IN  run' = [run EXCEPT !.pc = "done",
                               !.plotted = plotted,
                               !.raised = raised,
                               !.payload = IF raised # Unused
                                           THEN FailedPayload(raised, history)
                                           ELSE SuccessPayload(run.results, history)]
    /\ UNCHANGED <<execVars, memVars, planVars>>

\* the caller takes the payload; self.memory keeps its records and the
\* engine its session
TakePayload ==
    /\ run.pc = "done"
    /\ run' = [NoRun EXCEPT !.base = run.base, !.unclosed = run.unclosed]
    /\ UNCHANGED <<execVars, memVars, planVars>>

InitAgent ==
    /\ \E k \in {"spark", "duckdb"} : engine = NewEngine(k, TRUE, TRUE)
    /\ fallback = None
    /\ enable_fallback = FALSE
    /\ query = <<>>
    /\ calls = <<>>
    /\ ret = Unused
    /\ fallback_calls = <<>>
    /\ fallback_script = AllGoes
    /\ PlanIdle
    /\ history = <<>>
    /\ context = Unused

NextAgent == AnalyzeStart \/ AnalyzeStep \/ AnalyzeFinish \/ TakePayload

SpecAgent == InitAgent /\ [][NextAgent]_vars

(***************************************************************************)
(* Observations on the last execute_safely call.                           *)
(***************************************************************************)
Returned == ret # Unused

CallsOf(op) == {i \in DOMAIN calls : calls[i].op = op}

Invoked(op) == CallsOf(op) # {}

ReturnedFrom(op) == \E i \in CallsOf(op) : calls[i].outcome.tag = "return"

RaisedFrom(op) == \E i \in CallsOf(op) : calls[i].outcome.tag = "raise"

OutcomeOf(op) == calls[CHOOSE i \in CallsOf(op) : TRUE].outcome

\* the failure triple: success false, an empty list, a message that is not ""
IsFailure(r) ==
    /\ r.tag = "return"
    /\ r.value.success = FALSE
    /\ r.value.result = List(<<>>)
    /\ r.value.error_message # <<>>

\* C1: during every execute_safely call, whatever validate_code, connect,
\* execute_query and close do, engine.close() is invoked exactly once when
\* engine.connect() returned without raising, and not at all otherwise.
C1_CloseIffConnected ==
    Returned =>
        Cardinality(CallsOf("close")) = (IF ReturnedFrom("connect") THEN 1 ELSE 0)

\* a call in which connect returned, execute_query raised, and close was invoked
C1_Witness ==
    /\ Returned
    /\ ReturnedFrom("connect")
    /\ RaisedFrom("execute_query")
    /\ Cardinality(CallsOf("close")) = 1

\* C2: on every return path the result of the triple is a list, never None:
\* the empty list on every failure path, the backend's rows on success, and
\* the empty list on the success path when execute_query returned None.
C2_ResultIsSequence ==
    Returned /\ ret.tag = "return" =>
        /\ ret.value.result.tag = "list"
        /\ ~ ret.value.success => ret.value.result = List(<<>>)
        /\ ret.value.success =>
              /\ ReturnedFrom("execute_query")
              /\ OutcomeOf("execute_query").value.tag \in {"list", "None"}
              /\ OutcomeOf("execute_query").value.tag = "list"
                    => ret.value.result = OutcomeOf("execute_query").value
        /\ (ReturnedFrom("execute_query") /\ OutcomeOf("execute_query").value = None)
              => ret.value.success /\ ret.value.result = List(<<>>)

\* a call whose execute_query returned None and which reported success
C2_Witness ==
    /\ Returned
    /\ ReturnedFrom("execute_query")
    /\ OutcomeOf("execute_query").value = None
    /\ ret.tag = "return"
    /\ ret.value.success

\* C3: execute_safely never lets an exception of validate_code, connect,
\* execute_query or close reach its caller, and when close() raises the triple
\* returned is the one the try / except clauses had determined: the rows of a
\* successful execute_query with an empty message, or the failure triple.
C3_NoExceptionEscapes ==
    Returned =>
        /\ ret.tag = "return"
        /\ RaisedFrom("validate_code") \/ RaisedFrom("connect")
             \/ RaisedFrom("execute_query") => IsFailure(ret)
        /\ RaisedFrom("close") =>
              IF ReturnedFrom("execute_query")
                 /\ OutcomeOf("execute_query").value.tag \in {"list", "None"}
              THEN ret = Outcome(TRUE, NormaliseResult(OutcomeOf("execute_query").value), <<>>)
              ELSE IsFailure(ret)

\* a successful call whose close() raised
C3_Witness ==
    /\ Returned
    /\ RaisedFrom("close")
    /\ ret.tag = "return"
    /\ ret.value.success

\* C4: connect and execute_query are invoked only after validate_code returned
\* true; when the engine lacks validate_code or execute_query, when
\* validate_code returns false (as both concrete engines do for a statement
\* containing DROP) or raises, the call returns the failure triple with a
\* non-empty message and connect is never invoked.
C4_ValidateBeforeConnect ==
    Returned =>
        /\ Invoked("connect") \/ Invoked("execute_query") =>
              /\ calls[1].op = "validate_code"
              /\ calls[1].outcome = Return(TRUE)
        /\ (~ engine.has_validate \/ ~ engine.has_execute
              \/ ~ (ReturnedFrom("validate_code") /\ OutcomeOf("validate_code").value))
              => IsFailure(ret) /\ ~ Invoked("connect") /\ ~ Invoked("execute_query")
        /\ (engine.kind \in {"duckdb", "spark"} /\ Contains(KW_DROP, Upper(query)))
              => IsFailure(ret) /\ ~ Invoked("connect")

\* the embedded engine rejecting DROP TABLE without a connection attempt
C4_Witness ==
    /\ Returned
    /\ engine.kind = "duckdb"
    /\ query = QDropTable
    /\ IsFailure(ret)
    /\ ~ Invoked("connect")

\* the primary attempt of the last request failed
PrimaryFailed ==
    \/ ~ Invoked("validate_code")
    \/ ~ (ReturnedFrom("validate_code") /\ OutcomeOf("validate_code").value)
    \/ RaisedFrom("connect")
    \/ RaisedFrom("execute_query")

\* the fallback engine, asked the same query, would report success
FallbackWouldSucceed ==
    /\ fallback # None
    /\ LET r == execute_safely(fallback, query, fallback_script).ret IN
       r.tag = "return" /\ r.value.success

\* C5: when the primary attempt fails, fallback is enabled, a fallback engine
\* is configured and that engine succeeds, the executor's outcome is success
\* (and the fallback engine is the one that served the request).
C5_FallbackRecovers ==
    (Returned /\ PrimaryFailed /\ enable_fallback /\ FallbackWouldSucceed)
        => /\ ret.tag = "return"
           /\ ret.value.success
           /\ fallback_calls # <<>>

\* C6: the fallback engine is attempted if and only if the primary attempt
\* failed, the enable-fallback flag is set and a fallback engine is configured.
C6_FallbackAttemptedIff ==
    Returned =>
        (fallback_calls # <<>>
            <=> (PrimaryFailed /\ enable_fallback /\ fallback # None))

(***************************************************************************)
(* What get_failure_context is to return, stated on the positions of the   *)
(* failing records in the history.                                         *)
(***************************************************************************)
FailingAt(h) == {i \in DOMAIN h : h[i].success = FALSE}

\* the positions of the last min(3, N) of the N failing records
ShownAt(h) ==
    {i \in FailingAt(h) : Cardinality({j \in FailingAt(h) : j > i}) < MaxFailuresShown}

ExpectedBlock(r) ==
    <<"step ">> \o StrInt(r.step_id) \o <<": ">> \o r.step_name \o <<"\n", "  query: ">>
    \o [k \in 1..(IF Len(r.query) < FailureQueryChars THEN Len(r.query)
                  ELSE FailureQueryChars) |-> r.query[k]]
    \o <<"...\n", "  error: ">>
    \o (IF r.error = None THEN <<"N","o","n","e">> ELSE r.error.text) \o <<"\n">>

RECURSIVE ExpectedBlocks(_, _)
\* the blocks of the shown records at positions i.. of h, in append order
ExpectedBlocks(h, i) ==
    IF i > Len(h) THEN <<>>
    ELSE (IF i \in ShownAt(h) THEN ExpectedBlock(h[i]) ELSE <<>>) \o ExpectedBlocks(h, i + 1)

\* C7: after any sequence of record_step and clear calls, get_failure_context
\* returns "" when the history holds no failing record, and otherwise the
\* header followed by the blocks of exactly the last min(3, N) of the N failing
\* records, in append order, each with step id, step name, the first 100
\* characters of the query, and the error; successful records never appear.
C7_LastThreeFailures ==
    context # Unused =>
        /\ Cardinality(ShownAt(history))
             = (IF Cardinality(FailingAt(history)) < 3
                THEN Cardinality(FailingAt(history)) ELSE 3)
        /\ context.value
             = (IF FailingAt(history) = {} THEN <<>>
                ELSE ContextHeader \o ExpectedBlocks(history, 1))

\* four failures with a success between them and a query longer than 100
\* characters among the last three, rendered
C7_Witness ==
    /\ context # Unused
    /\ context.value # <<>>
    /\ Cardinality(FailingAt(history)) = 4
    /\ Len(history) = 5
    /\ history[3].success
    /\ \E i \in ShownAt(history) : Len(history[i].query) > FailureQueryChars

(***************************************************************************)
(* Observations on the last generate_plan call.                            *)
(***************************************************************************)
PlanDone == plan_ret # Unused

\* the attempt on this response parses and validates
Valid(r) == AttemptOf[r].tag = "return"

\* the attempt on this response fails in parsing or in validation
Malformed(r) ==
    /\ AttemptOf[r].tag = "raise"
    /\ AttemptOf[r].type \in {"JSONDecodeError", "ValidationError"}

AllMalformed == \A k \in DOMAIN responses : Malformed(responses[k])

RECURSIVE SumSeq(_)
SumSeq(s) == IF s = <<>> THEN 0 ELSE Head(s) + SumSeq(Tail(s))

\* C8: generate_plan calls llm.chat at most 3 times; every attempt before the
\* last one made was malformed; it returns the plan of the first attempt that
\* parses and validates and makes no call after it; when all 3 attempts are
\* malformed it raises after the 3rd and makes no 4th call.
C8_AtMostThreeAttempts ==
    PlanDone =>
        /\ llm_calls \in 1..3
        /\ \A k \in 1..(llm_calls - 1) : Malformed(responses[k])
        /\ Valid(responses[llm_calls]) => plan_ret = AttemptOf[responses[llm_calls]]
        /\ plan_ret.tag = "return" => Valid(responses[llm_calls])
        /\ AllMalformed =>
              /\ llm_calls = 3
              /\ plan_ret.tag = "raise"
              /\ plan_ret = AttemptOf[responses[3]]

\* three malformed responses, unparseable and invalid ones among them, and
\* the exception of the 3rd attempt raised
C8_Witness ==
    /\ PlanDone
    /\ AllMalformed
    /\ llm_calls = 3
    /\ plan_ret.tag = "raise"
    /\ {AttemptOf[responses[k]].type : k \in 1..3} = {"JSONDecodeError", "ValidationError"}

ValidPlans == {v \in Documents : v.tag = "dict" /\ AnalysisPlan(v).tag = "return"}

Tokens(s) == {s[i] : i \in DOMAIN s}

\* the response at attempt k is lead, a fenced block holding plan p, trail
FencedPlanAt(k, lead, tag, p, trail) ==
    /\ k \in 1..llm_calls
    /\ responses[k] = Return(lead \o Fenced(tag, Dumps(p)) \o trail)

\* extract_json gives the text of p, and generate_plan returns p at attempt k
ExtractedAndReturnedAt(k, p) ==
    /\ extract_json(responses[k].value) = Dumps(p)
    /\ llm_calls = k
    /\ plan_ret = AnalysisPlan(p)

\* C10 as stated: for every response made of optional leading prose, a fenced
\* block holding one valid plan object and trailing prose, extract_json
\* returns the text of the object and generate_plan returns its plan on that
\* attempt, without another attempt.
C10_FencedPlanExtracted ==
    PlanDone =>
        \A k \in 1..3, lead \in LeadingProse, trail \in TrailingProse,
           tag \in FenceTags, p \in ValidPlans :
            FencedPlanAt(k, lead, tag, p, trail) => ExtractedAndReturnedAt(k, p)

\* C10, amended: the same for the responses whose leading prose holds no "{"
\* and whose trailing prose holds no "}".
C10_FencedPlanExtractedBraceFreeProse ==
    PlanDone =>
        \A k \in 1..3, lead \in LeadingProse, trail \in TrailingProse,
           tag \in FenceTags, p \in ValidPlans :
            (/\ FencedPlanAt(k, lead, tag, p, trail)
             /\ "{" \notin Tokens(lead)
             /\ "}" \notin Tokens(trail))
                => ExtractedAndReturnedAt(k, p)

\* a two-step plan in a json fence between prose, returned at the 1st attempt
C10_Witness ==
    /\ PlanDone
    /\ llm_calls = 1
    /\ sleeps = <<>>
    /\ responses[1] = Return(PlainLead \o Fenced(<<"json">>, Dumps(ValidPlan2)) \o PlainTrail)
    /\ plan_ret = AnalysisPlan(ValidPlan2)

\* the plan dict has no step, or a step whose tool is none of the three
HasNoStepOrBadTool(v) ==
    \/ v.steps = <<>>
    \/ \E i \in DOMAIN v.steps :
          v.steps[i].tool_needed \notin {"SQL_Executor", "Python_Plotter", "RAG_Search"}

\* C14: every plan generate_plan returns has a step and only steps whose tool
\* is SQL_Executor, Python_Plotter or RAG_Search; an attempt whose response
\* describes a plan with no step or with another tool is never the one that
\* returns: it is retried, or, being the 3rd, raises the validation error.
C14_PlanStepsValidated ==
    PlanDone =>
        /\ plan_ret.tag = "return" => ~ HasNoStepOrBadTool(plan_ret.value)
        /\ \A k \in 1..llm_calls, v \in PlanDicts :
              (responses[k] = Return(Dumps(v)) /\ HasNoStepOrBadTool(v)) =>
                  IF k < 3 THEN llm_calls > k
                  ELSE plan_ret = Raise("ValidationError", <<>>)

\* a plan without steps at the 1st attempt and a plan with a tool outside
\* the list at the 3rd, which raises
C14_Witness ==
    /\ PlanDone
    /\ llm_calls = 3
    /\ responses[1] = Return(Dumps(JDict(PlanKeys, <<StepDict(1, "Shell")>>)))
    /\ responses[3] = Return(Dumps(JDict(PlanKeys, <<>>)))
    /\ plan_ret = Raise("ValidationError", <<>>)

\* C15: in every plan generate_plan returns each step_id is a positive
\* integer and no two steps have the same step_id.
C15_StepIdsPositiveDistinct ==
    (PlanDone /\ plan_ret.tag = "return") =>
        LET steps == plan_ret.value.steps IN
        /\ \A i \in DOMAIN steps : steps[i].step_id > 0
        /\ \A i, j \in DOMAIN steps : i # j => steps[i].step_id # steps[j].step_id

\* C19: a transport error of llm.chat during generate_plan is retried while
\* an attempt is left, and reaches the caller only from the 3rd attempt.
C19_TransportErrorRetried ==
    PlanDone =>
        \A k \in 1..llm_calls :
            responses[k] = TransportError => (k = 3 \/ llm_calls > k)

\* C18: the default validate_code answers False for every statement that
\* holds DROP, DELETE, TRUNCATE, INSERT or UPDATE in any letter case, and
\* True for every other statement.
C18_DefaultValidateRejectsMutations ==
    (Returned /\ engine.kind = "duckdb" /\ Invoked("validate_code")) =>
        OutcomeOf("validate_code")
          = Return(~ \E w \in {<<"D","R","O","P">>, <<"D","E","L","E","T","E">>,
                               <<"T","R","U","N","C","A","T","E">>,
                               <<"I","N","S","E","R","T">>, <<"U","P","D","A","T","E">>} :
                        Contains(w, Upper(query)))

(***************************************************************************)
(* Observations on the analyze call in progress.                           *)
(***************************************************************************)
Entries == DOMAIN run.log
Corrected(j) == run.log[j].corrector # Unused
FirstFailed(j) == run.log[j].first # Unused /\ ~ run.log[j].first.success
RevisedAt(j) ==
    /\ Corrected(j)
    /\ run.log[j].corrector.ret.tag = "return"
    /\ run.log[j].corrector.ret.value # None
    /\ run.log[j].corrector.ret.value.text # <<>>
Reexecuted(j) == run.log[j].second # Unused
PayloadReturned == run.pc = "done" /\ run.payload # Unused

\* C11: correct never raises because the language model failed: when every
\* call it made of the model's chat raised, it returns None
C11_CorrectReturnsNoneOnFailure ==
    \A j \in Entries :
        Corrected(j) =>
            LET c == run.log[j].corrector IN
            /\ c.ret.tag = "return"
            /\ (\A k \in 1..c.llm_calls : c.responses[k].tag = "raise") => c.ret = Return(None)

\* C11 witness: both answers scripted for a correct call raise, the call
\* returned None, and the step was then recorded as failed
C11_Witness ==
    \E j \in Entries :
        /\ Corrected(j)
        /\ run.log[j].corrector.responses = <<TransportError, TransportError>>
        /\ run.log[j].corrector.ret = Return(None)
        /\ run.raised = Unused
        /\ history # <<>>
        /\ ~ history[Len(history)].success

\* C12: when the first chat call of a correct call raises and the second would
\* return a query, correct calls chat a second time after a wait and returns
\* the second call's query
C12_SecondAttemptAfterFailure ==
    \A j \in Entries :
        (/\ Corrected(j)
         /\ run.log[j].corrector.responses = <<TransportError, Return(Text(QLimit))>>) =>
            /\ run.log[j].corrector.llm_calls = 2
            /\ Len(run.log[j].corrector.sleeps) = 1
            /\ run.log[j].corrector.ret = Return(Text(QLimit))

\* C13: after a step whose first execution failed, whose correction gave a
\* revised query and whose second execution succeeded, the memory holds a
\* failing record of the step followed by a last record with success = true
C13_FailedAttemptRecorded ==
    \A j \in Entries :
        (/\ j = Len(run.log)
         /\ run.raised = Unused
         /\ FirstFailed(j) /\ RevisedAt(j) /\ Reexecuted(j) /\ run.log[j].second.success) =>
            /\ Len(history) >= 2
            /\ history[Len(history)].success
            /\ history[Len(history)].step_id = run.log[j].step_id
            /\ ~ history[Len(history) - 1].success
            /\ history[Len(history) - 1].step_id = run.log[j].step_id

\* the exception of record_solution, raised after a correction that worked
SolutionSaveRaised == \E j \in Entries : run.log[j].saved # Unused /\ run.log[j].saved.tag = "raise"
\* the exception of the plotter, raised after the loop on a result it cannot draw
PlotRaised == run.plotted # Unused /\ run.plotted.tag = "raise"

\* C16: once there is a plan, a step whose execution failed, whose correction
\* gave nothing or whose revised query failed does not end the run: every
\* step of the plan is processed and, unless the plotter raises after the
\* loop, the payload has status success with an entry in results for every
\* SQL step
C16_FailedStepNeverAborts ==
    (PayloadReturned /\ run.steps # <<>> /\ ~ SolutionSaveRaised) =>
        /\ Len(run.log) = Len(run.steps)
        /\ run.payload.tag = "return"
        /\ ~ PlotRaised =>
              /\ run.payload.value.status = "success"
              /\ \A j \in Entries :
                    run.log[j].tool = "SQL_Executor" =>
                        /\ run.log[j].step_id \in DOMAIN run.payload.value.results
                        /\ (j = Len(run.log) =>
                              run.payload.value.results[run.log[j].step_id].success
                                  = (IF Reexecuted(j) THEN run.log[j].second.success
                                     ELSE run.log[j].first.success))

\* C16 witness: a plan of two steps, the first ended as a failure, the second
\* was executed and succeeded, status success
C16_Witness ==
    /\ PayloadReturned
    /\ Len(run.steps) = 2
    /\ Len(run.log) = 2
    /\ run.log[1].record # 0 /\ ~ history[run.log[1].record].success
    /\ run.log[2].first # Unused /\ run.log[2].first.success
    /\ run.payload.value.status = "success"
    /\ ~ run.payload.value.results[run.log[1].step_id].success

\* C17: analyze never raises: the payload is returned, has status failed and
\* the text of the exception when one was raised and status success
\* otherwise, and carries the memory's history as it is at that point
C17_AnalyzeNeverRaises ==
    PayloadReturned =>
        /\ run.payload.tag = "return"
        /\ run.payload.value.execution_history = history
        /\ IF run.raised # Unused
           THEN /\ run.payload.value.status = "failed"
                /\ run.payload.value.error = run.raised.text
           ELSE run.payload.value.status = "success"

\* C17 witness: an exception in the second step, after the first step was
\* recorded: the failed payload carries that record
C17_Witness ==
    /\ PayloadReturned
    /\ run.raised # Unused
    /\ Len(run.log) = 2
    /\ run.payload.value.status = "failed"
    /\ Len(run.payload.value.execution_history) = 1

\* C20: for every SQL step of a run, observed when it is the latest one, the
\* corrector is called once when the first execution failed and not at all
\* when it succeeded, and the query is executed a second time exactly when
\* the corrector returned a revised query
C20_OneCorrectionTwoExecutions ==
    \A j \in Entries \cap {Len(run.log)} :
        IF run.log[j].tool # "SQL_Executor"
        THEN ~ Corrected(j) /\ ~ Reexecuted(j) /\ run.log[j].first = Unused
        ELSE /\ run.log[j].first # Unused
             /\ Corrected(j) <=> FirstFailed(j)
             /\ Reexecuted(j) <=> RevisedAt(j)

\* C20 witness: after a step that ended as a success, a step that failed, was
\* corrected and was executed a second time
C20_Witness ==
    /\ Len(run.log) = 2
    /\ run.log[1].record # 0 /\ history[run.log[1].record].success
    /\ FirstFailed(2) /\ Corrected(2) /\ RevisedAt(2) /\ Reexecuted(2)

\* C24: the memory is append-only: record_step puts one record at the end and
\* leaves the earlier records as they were, in their order;
\* get_failure_context leaves the history alone and returns "" on an empty
\* one; the history gets shorter only through clear(), which empties it
C24_AppendOnly ==
    [][/\ RecordStep =>
             /\ Len(history') = Len(history) + 1
             /\ SubSeq(history', 1, Len(history)) = history
       /\ GetFailureContext =>
             /\ history' = history
             /\ history = <<>> => context' = Return(<<>>)
       /\ Len(history') < Len(history) => Clear /\ history' = <<>>]_vars

\* C24 witness: a failing record was appended after a successful one, and the
\* context was then rendered from the two without changing them
C24_Witness ==
    /\ Len(history) = 2
    /\ history[1].success
    /\ ~ history[2].success
    /\ context = Return(get_failure_context(history))
    /\ context.value # <<>>

\* C28: execute_safely on a SparkEngine that was never connected, for a query
\* without a mutation keyword and with an aggregation or LIMIT keyword, when
\* no operation of the backend fails, passes validation and returns success
C28_FreshSparkEngineExecutes ==
    (/\ Returned
     /\ engine.kind = "spark"
     /\ engine.session = "none"
     /\ SparkStaticChecksOf[query]
     /\ \A i \in DOMAIN calls : calls[i].outcome.tag = "return") =>
        /\ OutcomeOf("validate_code") = Return(TRUE)
        /\ ret.tag = "return"
        /\ ret.value.success

\* C26: get_schema of a concrete engine connects whenever the engine is not
\* connected, after close() as on a new engine, and so never lists the tables
\* of a closed session
C26_GetSchemaAutoConnects ==
    (~ Returned /\ Invoked("get_schema")) =>
        /\ OutcomeOf("get_schema") # Raise("Exception", <<"closed">>)
        /\ ~ Invoked("connect") => engine.session # "none"

\* the records the memory holds of the run in progress
OwnRecords(last) == SubSeq(history, run.base + 1, last)

\* C21: every step the loop of analyze goes through has a record of this run
\* in the memory, and the success flag of the record is the step's final
\* outcome: that of the second execution when there was one, else of the first
C21_EveryStepRecorded ==
    \A j \in Entries :
        /\ run.log[j].record \in (run.base + 1)..Len(history)
        /\ history[run.log[j].record].step_id = run.log[j].step_id
        /\ (j = Len(run.log) /\ run.log[j].first # Unused) =>
              history[run.log[j].record].success
                  = (IF Reexecuted(j) THEN run.log[j].second.success
                     ELSE run.log[j].first.success)

\* C22: the query of the record written for a step is the text that was given
\* to execute_safely for the recorded outcome, the optimized query or the
\* revised one, and the failed query given to the corrector is the text whose
\* execution failed
C22_RecordedQueryIsSubmitted ==
    \A j \in Entries \cap {Len(run.log)} :
        (run.log[j].first # Unused /\ run.log[j].record # 0) =>
            /\ Text(history[run.log[j].record].query)
                  = (IF Reexecuted(j) THEN run.log[j].corrector.ret.value
                     ELSE run.log[j].query)
            /\ Corrected(j) => run.log[j].failed_query = run.log[j].query

\* a call made before the loop raised: connect, get_schema or generate_plan
SchemaOrPlanFailed ==
    /\ run.start # Unused
    /\ \/ run.start.connect.tag = "raise"
       \/ run.start.schema.tag = "raise"
       \/ run.start.plan.tag = "raise"

\* C23: when connect or get_schema on the primary engine or generate_plan
\* fails, the run ends at once: no step is gone through, the corrector is not
\* called, the memory gets no record and the payload has status failed
C23_StartFailureAborts ==
    SchemaOrPlanFailed =>
        /\ PayloadReturned
        /\ run.log = <<>>
        /\ run.i = 0
        /\ Len(history) = run.base
        /\ run.payload.tag = "return"
        /\ run.payload.value.status = "failed"

\* C23 witness: a later run of an agent whose memory holds records, ended by
\* generate_plan raising after the schema was fetched
C23_Witness ==
    /\ PayloadReturned
    /\ run.start.plan.tag = "raise"
    /\ run.start.schema.tag = "return"
    /\ run.base > 0
    /\ Len(history) = run.base
    /\ run.payload.value.status = "failed"

\* C25: connect() is never called on the engine while a session that an
\* earlier connect() opened has had no close() call, neither by the schema
\* fetch of analyze nor by the execute_safely calls of its steps
C25_ConnectOnlyAfterClose ==
    [][/\ (run.pc = "idle" /\ run'.pc # "idle" /\ run'.start.connect # Unused)
             => ~ run.unclosed
       /\ (run.pc = "steps" /\ run'.i > run.i) => ~ run.unclosed]_vars

\* C27: the steps of a run are gone through one after the other in the order
\* of their step_id, each after the record of the one before was written
C27_StepsInIdOrder ==
    \A j \in Entries, k \in Entries :
        j < k =>
            /\ run.log[j].step_id < run.log[k].step_id
            /\ (run.log[j].tool = "SQL_Executor" /\ run.log[k].record # 0) =>
                  /\ run.log[j].record # 0
                  /\ run.log[j].record < run.log[k].record

\* C29: when analyze returns, every session that a connect() of the run
\* opened has had its close() call, the one of the schema fetch included
C29_SessionsClosedAtReturn ==
    PayloadReturned => ~ run.unclosed

\* C30: the history a run returns and the failure context the corrector is
\* given during the run hold records of that run only
C30_MemoryScopedToRun ==
    /\ PayloadReturned =>
          run.payload.value.execution_history = OwnRecords(Len(history))
    /\ \A j \in Entries :
          Corrected(j) =>
              run.log[j].failure_context
                  = Text(get_failure_context(
                             OwnRecords(IF run.log[j].record # 0
                                        THEN run.log[j].record - 1 ELSE Len(history))))

====
